---------------------------- MODULE Spec2Model ----------------------------
(***************************************************************************)
(* Model of scripts/tools.py: the conversion of host (Blender) scene       *)
(* entities into the calls made on the target library's Camera, Mesh and   *)
(* Light objects, and the file_exist helper.                               *)
(*                                                                         *)
(* A behaviour is one invocation: Init draws the function that is called   *)
(* and its arguments, the function's action runs the whole body and        *)
(* records every call it makes on the object it constructs, its printed    *)
(* output and its result.                                                  *)
(*                                                                         *)
(* Matrices are functions [0..3 -> [0..3 -> Int]] addressed [row][col] as  *)
(* in the source.  An optional value (Python None or a value) is a         *)
(* sequence of length 0 or 1.                                              *)
(***************************************************************************)
EXTENDS Integers, Sequences, FiniteSets, Bags, TLC

VARIABLES
    fn,                 \* the function the host invokes
    ret,                \* "" while the call is pending, then its result
    source,             \* bl2veraCamera: the camera source
    img_dims,           \* bl2veraCamera: <<w, h>>
    view_matrix,        \* bl2veraCamera local (None or a matrix)
    projection_matrix,  \* bl2veraCamera local (None or a matrix)
    cam,                \* calls received by the gl.Camera() built by the call
    stdout,             \* lines printed
    bl_mesh,            \* bl2veraMesh: the host mesh object
    mesh,               \* calls received by the gl.Mesh() built by the call
    bl_light,           \* bl2veraLight: the host light object
    light,              \* calls received by the gl.Light() built by the call
    filename,           \* file_exist: the argument
    readable,           \* absolute paths on which open(..., 'r') succeeds
    handles             \* open file handles of the process

vars == <<fn, ret, source, img_dims, view_matrix, projection_matrix, cam,
          stdout, bl_mesh, mesh, bl_light, light, filename, readable, handles>>

-----------------------------------------------------------------------------
(* Bounds of the input space *)

MaxT == 1          \* translation components of a world/view matrix: 0..MaxT
MaxSeed == 1       \* projection matrices with distinct cells: Ramp(0..MaxSeed)
MaxDim == 2        \* image dimensions: 1..MaxDim
MaxCoord == 1      \* light location components: -MaxCoord..MaxCoord
MaxVerts == 3      \* vertices of a mesh
MaxTris == 2       \* loop triangles of a mesh
MaxLoops == 4      \* entries of the active UV layer's data
MaxPaths == 1      \* file names per directory
MaxHandles == 2    \* file handles open before file_exist is called

-----------------------------------------------------------------------------
(* 4x4 matrices of the host (mathutils.Matrix / numpy array) *)

Idx == 0..3

Matrix(rows) == [r \in Idx |-> [c \in Idx |-> rows[r + 1][c + 1]]]

Identity == [r \in Idx |-> [c \in Idx |-> IF r = c THEN 1 ELSE 0]]

ZeroMatrix == [r \in Idx |-> [c \in Idx |-> 0]]

Mul(A, B) ==
    [r \in Idx |-> [c \in Idx |->
        A[r][0] * B[0][c] + A[r][1] * B[1][c] + A[r][2] * B[2][c] + A[r][3] * B[3][c]]]

\* index of the k-th (k in 0..2) row or column left when index d is deleted
Skip(k, d) == IF k < d THEN k ELSE k + 1

\* determinant of M with row r and column c deleted
Minor(M, r, c) ==
    LET m(i, j) == M[Skip(i, r)][Skip(j, c)]
    IN    m(0, 0) * (m(1, 1) * m(2, 2) - m(1, 2) * m(2, 1))
        - m(0, 1) * (m(1, 0) * m(2, 2) - m(1, 2) * m(2, 0))
        + m(0, 2) * (m(1, 0) * m(2, 1) - m(1, 1) * m(2, 0))

Sign(r, c) == IF (r + c) % 2 = 0 THEN 1 ELSE -1

Cofactor(M, r, c) == Sign(r, c) * Minor(M, r, c)

Det(M) ==
      M[0][0] * Cofactor(M, 0, 0) + M[0][1] * Cofactor(M, 0, 1)
    + M[0][2] * Cofactor(M, 0, 2) + M[0][3] * Cofactor(M, 0, 3)

\* Matrix.inverted(): the inverse, or ValueError (<<>>) for a singular matrix.
\* The inverse is adj(M) / det(M); the matrices of the model have determinant
\* -1, 0 or 1, for which 1 / det = det.
inverted(M) ==
    LET d == Det(M)
    IN  IF d = 0 THEN <<>>
        ELSE << [r \in Idx |-> [c \in Idx |-> Cofactor(M, c, r) * d]] >>

-----------------------------------------------------------------------------
(* Calls on the target library's objects *)

Call(f, a) == [fn |-> f, args |-> a]

\* the float literal 0.5, kept exact
Half == [num |-> 1, den |-> 2]

\* the calls of the log m whose function is f, in order
RECURSIVE Select(_, _)
Select(m, f) ==
    IF m = <<>> THEN <<>>
    ELSE IF Head(m).fn = f THEN <<Head(m)>> \o Select(Tail(m), f)
    ELSE Select(Tail(m), f)

-----------------------------------------------------------------------------
(* bl2veraCamera *)

\* mutation: the view matrix emitted column by column without the row swap
MutTransformNoSwap(V) ==
    << V[0][0], V[1][0], V[2][0], V[3][0],
       V[0][1], V[1][1], V[2][1], V[3][1],
       V[0][2], V[1][2], V[2][2], V[3][2],
       V[0][3], V[1][3], V[2][3], V[3][3] >>

\* mutation: the third group of arguments pasted again as the fourth
MutTransformRepeatedGroup(V) ==
    << V[0][0], V[2][0], V[1][0], V[3][0],
       V[0][1], V[2][1], V[1][1], V[3][1],
       V[0][2], V[2][2], V[1][2], V[3][2],
       V[0][2], V[2][2], V[1][2], V[3][2] >>

\* the sixteen arguments of cam.setTransformMatrix(...)
setTransformMatrixArgs(V) ==
    << V[0][0], V[2][0], V[1][0], V[3][0],
       V[0][1], V[2][1], V[1][1], V[3][1],
       V[0][2], V[2][2], V[1][2], V[3][2],
       V[0][3], V[2][3], V[1][3], V[3][3] >>

\* mutation: the projection emitted with the row swap of the view matrix
MutProjectionSwapped(P) ==
    << P[0][0], P[2][0], P[1][0], P[3][0],
       P[0][1], P[2][1], P[1][1], P[3][1],
       P[0][2], P[2][2], P[1][2], P[3][2],
       P[0][3], P[2][3], P[1][3], P[3][3] >>

\* the sixteen arguments of cam.setProjection(...)
setProjectionArgs(P) ==
    << P[0][0], P[1][0], P[2][0], P[3][0],
       P[0][1], P[1][1], P[2][1], P[3][1],
       P[0][2], P[1][2], P[2][2], P[3][2],
       P[0][3], P[1][3], P[2][3], P[3][3] >>

\* mutation: height and width exchanged
MutViewportSwapped(dims) ==
    << [fn |-> "setViewport", args |-> <<dims[2], dims[1]>>],
       [fn |-> "setScale", args |-> <<Half>>] >>

\* cam.setViewport(img_dims[0], img_dims[1]); cam.setScale(0.5)
ViewportAndScale(dims) ==
    << Call("setViewport", <<dims[1], dims[2]>>), Call("setScale", <<Half>>) >>

\* the locals after a branch that recognised the source, then the emission
\* (V and P are optional: inverted() may have raised)
Emit(V, P, dims) ==
    IF V = <<>> \/ P = <<>>
    THEN [view_matrix |-> V, projection_matrix |-> P, cam |-> <<>>,
          stdout |-> <<>>, ret |-> "ValueError"]
    ELSE [view_matrix |-> V, projection_matrix |-> P,
          cam |-> << Call("setTransformMatrix", setTransformMatrixArgs(V[1])),
                     Call("setProjection", setProjectionArgs(P[1])) >>
                  \o ViewportAndScale(dims),
          stdout |-> <<>>, ret |-> "Camera"]

\* mutation: the else branch prints and does not return, so the emission
\* indexes None
MutInvalidSourceFallsThrough(src) ==
    [view_matrix |-> <<>>, projection_matrix |-> <<>>, cam |-> <<>>,
     stdout |-> << <<"INVALID CAMERA SOURCE: ", src.kind>> >>, ret |-> "TypeError"]

\* the else branch: print and return None
InvalidSource(src) ==
    [view_matrix |-> <<>>, projection_matrix |-> <<>>, cam |-> <<>>,
     stdout |-> << <<"INVALID CAMERA SOURCE: ", src.kind>> >>, ret |-> "None"]

Camera(src, dims) ==
    IF src.kind = "RegionView3D" THEN
        LET P == <<src.window_matrix>>
            V == inverted(src.view_matrix)
        IN  Emit(V, P, dims)
    ELSE IF src.kind = "Object" THEN
        LET V == inverted(src.matrix_world)
            \* calc_matrix_camera runs only when inverted() has returned
            P == IF V = <<>> THEN <<>> ELSE <<src.camera_matrix>>
        IN  Emit(V, P, dims)
    ELSE InvalidSource(src)

bl2veraCamera ==
    /\ fn = "bl2veraCamera"
    /\ ret = ""
    /\ LET r == Camera(source, img_dims)
       IN  /\ view_matrix' = r.view_matrix
           /\ projection_matrix' = r.projection_matrix
           /\ cam' = r.cam
           /\ stdout' = stdout \o r.stdout
           /\ ret' = r.ret
    /\ UNCHANGED <<fn, source, img_dims, bl_mesh, mesh, bl_light, light,
                   filename, readable, handles>>

-----------------------------------------------------------------------------
(* bl2veraMesh *)

\* mutation: the position taken to world space (p = W @ v.co) before negation
MutAddVertexWorld(v, W) ==
    LET p(r) == W[r][0] * v.co[1] + W[r][1] * v.co[2] + W[r][2] * v.co[3] + W[r][3]
    IN  << -p(0), -p(1), -p(2) >>

\* p = v.co; mesh.addVertex(-p[0], -p[1], -p[2])
\* (W = bl_mesh.matrix_world is read by the function and not applied)
addVertexArgs(v, W) == << -v.co[1], -v.co[2], -v.co[3] >>

\* n = v.normal; mesh.addNormal(-n[0], -n[1], -n[2])
addNormalArgs(v, W) == << -v.normal[1], -v.normal[2], -v.normal[3] >>

\* for v in bl_mesh.data.vertices: ... (from the i-th vertex on, 1-based)
RECURSIVE EmitVertices(_, _, _, _)
EmitVertices(m, vs, W, i) ==
    IF i > Len(vs) THEN m
    ELSE EmitVertices(m \o << Call("addVertex", addVertexArgs(vs[i], W)),
                              Call("addNormal", addNormalArgs(vs[i], W)) >>,
                      vs, W, i + 1)

\* mutation: the winding of each triangle flipped
MutAddIndexFlipped(tri) ==
    << [fn |-> "addIndex", args |-> <<tri[1]>>], [fn |-> "addIndex", args |-> <<tri[3]>>],
       [fn |-> "addIndex", args |-> <<tri[2]>>] >>

\* the three mesh.addIndex calls of one loop triangle
addIndexCalls(tri) ==
    << Call("addIndex", <<tri[1]>>), Call("addIndex", <<tri[2]>>),
       Call("addIndex", <<tri[3]>>) >>

\* for tri in bl_mesh.data.loop_triangles: ...
RECURSIVE EmitIndices(_, _, _)
EmitIndices(m, tris, j) ==
    IF j > Len(tris) THEN m
    ELSE EmitIndices(m \o addIndexCalls(tris[j]), tris, j + 1)

\* mesh.getVerticesTotal(): the positions the target mesh holds
getVerticesTotal(m) == Len(Select(m, "addVertex"))

\* for i in range(total): uv = data[i].uv; mesh.addTexCoord(uv[0], uv[1])
\* data[i] raises IndexError when the layer has no entry i
RECURSIVE EmitTexCoords(_, _, _, _)
EmitTexCoords(m, data, total, i) ==
    IF i >= total THEN [mesh |-> m, ret |-> "Mesh"]
    ELSE IF i + 1 > Len(data) THEN [mesh |-> m, ret |-> "IndexError"]
    ELSE EmitTexCoords(m \o << Call("addTexCoord", <<data[i + 1][1], data[i + 1][2]>>) >>,
                       data, total, i + 1)

\* mutation: mesh.computeTangents() dedented out of the if block
MutEmitUVsAlwaysTangents(m, active) ==
    LET r == IF active = <<>> THEN [mesh |-> m, ret |-> "Mesh"]
             ELSE EmitTexCoords(m, active[1], getVerticesTotal(m), 0)
    IN  IF r.ret = "Mesh"
        THEN [mesh |-> r.mesh \o << [fn |-> "computeTangents", args |-> <<>>] >>,
              ret |-> "Mesh"]
        ELSE r

\* if bl_mesh.data.uv_layers.active: <texcoords>; mesh.computeTangents()
EmitUVs(m, active) ==
    IF active = <<>> THEN [mesh |-> m, ret |-> "Mesh"]
    ELSE LET r == EmitTexCoords(m, active[1], getVerticesTotal(m), 0)
         IN  IF r.ret = "Mesh"
             THEN [mesh |-> r.mesh \o << Call("computeTangents", <<>>) >>, ret |-> "Mesh"]
             ELSE r

Mesh(bm) ==
    EmitUVs(EmitIndices(EmitVertices(<<>>, bm.vertices, bm.matrix_world, 1),
                        bm.loop_triangles, 1),
            bm.uv_active)

bl2veraMesh ==
    /\ fn = "bl2veraMesh"
    /\ ret = ""
    /\ LET r == Mesh(bl_mesh)
       IN  /\ mesh' = r.mesh
           /\ ret' = r.ret
    /\ UNCHANGED <<fn, source, img_dims, view_matrix, projection_matrix, cam,
                   stdout, bl_mesh, bl_light, light, filename, readable, handles>>

-----------------------------------------------------------------------------
(* bl2veraLight *)

\* light.setPosition(-loc[0], -loc[2], -loc[1])
\* (W = bl_light.matrix_world is read by the function and not applied)
setPositionArgs(loc, W) == << -loc[1], -loc[3], -loc[2] >>

bl2veraLight ==
    /\ fn = "bl2veraLight"
    /\ ret = ""
    /\ light' = << Call("setPosition", setPositionArgs(bl_light.location, bl_light.matrix_world)) >>
    /\ ret' = "Light"
    /\ UNCHANGED <<fn, source, img_dims, view_matrix, projection_matrix, cam,
                   stdout, bl_mesh, mesh, bl_light, filename, readable, handles>>

-----------------------------------------------------------------------------
(* file_exist *)

\* bpy.path.abspath(filename): a "//" prefix is relative to the blend file's
\* directory; anything that is not a string raises (<<>>)
abspath(f) ==
    IF f.type # "str" THEN <<>>
    ELSE << [dir |-> IF f.blend_relative THEN "blend" ELSE "cwd", name |-> f.name] >>

\* the descriptor open() gets: the lowest one not in use
FreeFd(hs) ==
    CHOOSE d \in 0..Cardinality(hs) :
        /\ \A h \in hs : h.fd # d
        /\ \A e \in 0..(d - 1) : \E h \in hs : h.fd = e

\* file = open(path, 'r'): the handle, or an OSError (<<>>)
open(hs, path, rd) ==
    IF path \in rd THEN << [fd |-> FreeFd(hs), path |-> path] >> ELSE <<>>

\* mutation: the handle is never closed
MutCloseLeak(hs, h) == hs

\* file.close()
close(hs, h) == hs \ {h}

FileExist(f, rd, hs) ==
    LET path == abspath(f)
    IN  IF path = <<>> THEN [handles |-> hs, ret |-> "False"]
        ELSE LET file == open(hs, path[1], rd)
             IN  IF file = <<>> THEN [handles |-> hs, ret |-> "False"]
                 ELSE [handles |-> close(hs \cup {file[1]}, file[1]), ret |-> "True"]

file_exist ==
    /\ fn = "file_exist"
    /\ ret = ""
    /\ LET r == FileExist(filename, readable, handles)
       IN  /\ handles' = r.handles
           /\ ret' = r.ret
    /\ UNCHANGED <<fn, source, img_dims, view_matrix, projection_matrix, cam,
                   stdout, bl_mesh, mesh, bl_light, light, filename, readable>>

-----------------------------------------------------------------------------
(* The inputs a call is made with *)

\* rotation parts: identity, an axis permutation, a quarter turn about Z, a shear
Rotations ==
    { << <<1, 0, 0>>, <<0, 1, 0>>, <<0, 0, 1>> >>,
      << <<0, 1, 0>>, <<0, 0, 1>>, <<1, 0, 0>> >>,
      << <<0, -1, 0>>, <<1, 0, 0>>, <<0, 0, 1>> >>,
      << <<1, 1, 0>>, <<0, 1, 0>>, <<0, 0, 1>> >> }

Affine(R, t) ==
    Matrix(<< R[1] \o <<t[1]>>, R[2] \o <<t[2]>>, R[3] \o <<t[3]>>, <<0, 0, 0, 1>> >>)

\* a matrix of determinant 1 whose inverse has sixteen pairwise different cells
Dense ==
    Matrix(<< <<32, -25, -2, 11>>, <<-21, 16, 0, -7>>,
              <<20, -16, -2, 7>>, <<25, -20, -3, 9>> >>)

\* world and view matrices: of determinant 1 or -1, and a singular one
WorldMatrices ==
    { Affine(R, <<a, 2 * b, 3 * c>>) :
        R \in Rotations, a \in 0..MaxT, b \in 0..MaxT, c \in 0..MaxT }
    \cup { ZeroMatrix, Dense }

\* a matrix whose sixteen cells are pairwise different
Ramp(k) == [r \in Idx |-> [c \in Idx |-> 4 * r + c + k]]

Perspective ==
    Matrix(<< <<1, 0, 0, 0>>, <<0, 2, 0, 0>>, <<0, 0, -3, -4>>, <<0, 0, -1, 0>> >>)

ProjectionMatrices == { Identity, Perspective } \cup { Ramp(k) : k \in 0..MaxSeed }

Dims == (1..MaxDim) \X (1..MaxDim)

CameraSources ==
    { [kind |-> "RegionView3D", view_matrix |-> M, window_matrix |-> P] :
        M \in WorldMatrices, P \in ProjectionMatrices }
    \cup { [kind |-> "Object", matrix_world |-> M, camera_matrix |-> P] :
        M \in WorldMatrices, P \in ProjectionMatrices }
    \cup { [kind |-> "NoneType"], [kind |-> "Mesh"] }

VertexPool ==
    { [co |-> <<1, 2, 3>>, normal |-> <<0, 0, 1>>],
      [co |-> <<-1, 0, 2>>, normal |-> <<0, -1, 0>>] }

MeshWorldMatrices ==
    { Identity,
      Affine(<< <<0, -1, 0>>, <<1, 0, 0>>, <<0, 0, 1>> >>, <<1, 2, 3>>) }

Perms ==
    << <<0, 1, 2>>, <<0, 2, 1>>, <<1, 0, 2>>, <<1, 2, 0>>, <<2, 0, 1>>, <<2, 1, 0>> >>

\* the j-th loop triangle of a mesh of n >= 3 vertices: three consecutive
\* vertex indices, in an order that changes from one triangle to the next
Triangle(j, p, n) ==
    LET w == << (j - 1) % n, j % n, (j + 1) % n >>
        q == Perms[((p + j - 1) % 6) + 1]
    IN  << w[q[1] + 1], w[q[2] + 1], w[q[3] + 1] >>

TriangleLists(n) ==
    IF n < 3 THEN { <<>> }
    ELSE { [j \in 1..t |-> Triangle(j, p, n)] : t \in 0..MaxTris, p \in 0..5 }

\* the data of a UV layer with L entries
UVData(L) == [i \in 1..L |-> <<i, 2 * i + 1>>]

UVLayers == { <<>> } \cup { <<UVData(L)>> : L \in 0..MaxLoops }

Meshes ==
    UNION { { [matrix_world |-> W, vertices |-> vs, loop_triangles |-> ts,
               uv_active |-> uv] :
                W \in MeshWorldMatrices, vs \in [1..n -> VertexPool],
                ts \in TriangleLists(n), uv \in UVLayers } : n \in 0..MaxVerts }

Coords == (-MaxCoord)..MaxCoord

Lights ==
    { [matrix_world |-> W, location |-> <<x, y, z>>] :
        W \in MeshWorldMatrices, x \in Coords, y \in Coords, z \in Coords }

Filenames ==
    { [type |-> "str", blend_relative |-> b, name |-> k] :
        b \in BOOLEAN, k \in 1..MaxPaths }
    \cup { [type |-> "NoneType", blend_relative |-> FALSE, name |-> 0] }

Paths == { [dir |-> d, name |-> k] : d \in {"blend", "cwd"}, k \in 1..MaxPaths }

\* handles the process already holds (on some other file)
HandleSets ==
    { { [fd |-> d, path |-> [dir |-> "cwd", name |-> 0]] : d \in ds } :
        ds \in SUBSET (0..(MaxHandles - 1)) }

NoMesh ==
    [matrix_world |-> Identity, vertices |-> <<>>, loop_triangles |-> <<>>,
     uv_active |-> <<>>]

NoLight == [matrix_world |-> Identity, location |-> <<0, 0, 0>>]

NoFilename == [type |-> "NoneType", blend_relative |-> FALSE, name |-> 0]

Init ==
    /\ ret = ""
    /\ view_matrix = <<>>
    /\ projection_matrix = <<>>
    /\ cam = <<>>
    /\ stdout = <<>>
    /\ mesh = <<>>
    /\ light = <<>>
    /\ \/ /\ fn = "bl2veraCamera"
          /\ source \in CameraSources
          /\ img_dims \in Dims
          /\ bl_mesh = NoMesh /\ bl_light = NoLight
          /\ filename = NoFilename /\ readable = {} /\ handles = {}
       \/ /\ fn = "bl2veraMesh"
          /\ bl_mesh \in Meshes
          /\ source = [kind |-> "NoneType"] /\ img_dims = <<1, 1>>
          /\ bl_light = NoLight
          /\ filename = NoFilename /\ readable = {} /\ handles = {}
       \/ /\ fn = "bl2veraLight"
          /\ bl_light \in Lights
          /\ source = [kind |-> "NoneType"] /\ img_dims = <<1, 1>>
          /\ bl_mesh = NoMesh
          /\ filename = NoFilename /\ readable = {} /\ handles = {}
       \/ /\ fn = "file_exist"
          /\ filename \in Filenames
          /\ readable \in SUBSET Paths
          /\ handles \in HandleSets
          /\ source = [kind |-> "NoneType"] /\ img_dims = <<1, 1>>
          /\ bl_mesh = NoMesh /\ bl_light = NoLight

Next == bl2veraCamera \/ bl2veraMesh \/ bl2veraLight \/ file_exist

Spec == Init /\ [][Next]_vars

-----------------------------------------------------------------------------
(* Properties *)

Returned(f) == fn = f /\ ret # ""

\* the r-th (0-based) group of four of sixteen arguments
Group(args, r) == SubSeq(args, 4 * r + 1, 4 * r + 4)

\* sixteen arguments re-assembled as four rows of four
Rows(args) == [r \in Idx |-> [c \in Idx |-> args[4 * r + c + 1]]]

\* columns 1 and 2 of a matrix exchanged
SwapColumns(M) ==
    [r \in Idx |-> [c \in Idx |-> M[r][IF c = 1 THEN 2 ELSE IF c = 2 THEN 1 ELSE c]]]

\* the matrix of the source that is inverted, and its projection
SourceView(src) ==
    IF src.kind = "RegionView3D" THEN src.view_matrix ELSE src.matrix_world
SourceProjection(src) ==
    IF src.kind = "RegionView3D" THEN src.window_matrix ELSE src.camera_matrix

TransformArgs == cam[1].args
ProjectionArgs == cam[2].args

\* how often each value occurs in a sequence
BagOfSeq(s) ==
    [v \in {s[k] : k \in DOMAIN s} |-> Cardinality({k \in DOMAIN s : s[k] = v})]

Cells(M) == [k \in 1..16 |-> M[(k - 1) \div 4][(k - 1) % 4]]

Neg(t) == << -t[1], -t[2], -t[3] >>

C3_LightNegatedLikeVertices ==
    Returned("bl2veraLight") =>
        /\ light = << Call("setPosition", Neg(bl_light.location)) >>
        /\ light[1].args = addVertexArgs([co |-> bl_light.location], bl_light.matrix_world)

\* C4: a mesh of N vertices yields exactly N addVertex and N addNormal calls,
\* the i-th carrying the negation of the i-th vertex's local co / normal
\* (negating again gives the host value back), whatever matrix_world is.
C4_VerticesNegated ==
    Returned("bl2veraMesh") =>
        LET vs == bl_mesh.vertices
            ps == Select(mesh, "addVertex")
            ns == Select(mesh, "addNormal")
        IN  /\ Len(ps) = Len(vs)
            /\ Len(ns) = Len(vs)
            /\ \A i \in 1..Len(vs) :
                 /\ ps[i].args = Neg(vs[i].co)
                 /\ ns[i].args = Neg(vs[i].normal)
                 /\ Neg(ps[i].args) = vs[i].co
                 /\ Neg(ns[i].args) = vs[i].normal

C4_Witness ==
    /\ Returned("bl2veraMesh")
    /\ Len(bl_mesh.vertices) >= 2
    /\ bl_mesh.vertices[1] # bl_mesh.vertices[2]
    /\ bl_mesh.matrix_world # Identity
    /\ Len(Select(mesh, "addVertex")) = Len(bl_mesh.vertices)

\* C5: the addIndex arguments are the loop triangles' vertex indices, triangle
\* after triangle, each triangle's three in the order the host gives them.
C5_IndicesInHostOrder ==
    Returned("bl2veraMesh") =>
        LET ts == bl_mesh.loop_triangles
            is == Select(mesh, "addIndex")
        IN  /\ Len(is) = 3 * Len(ts)
            /\ \A j \in 1..Len(ts) : \A k \in 1..3 :
                 is[3 * (j - 1) + k].args = << ts[j][k] >>

C5_Witness ==
    /\ Returned("bl2veraMesh")
    /\ Len(bl_mesh.loop_triangles) = 2
    /\ bl_mesh.loop_triangles[1] = <<2, 0, 1>>
    /\ Select(mesh, "addIndex")[1].args = <<2>>

\* the texcoords a mesh with an active layer gets when every vertex index has
\* an entry: one per vertex index, then computeTangents as the last call
AllTexCoordsThenTangents ==
    LET N == Len(bl_mesh.vertices)
        data == bl_mesh.uv_active[1]
        ts == Select(mesh, "addTexCoord")
    IN  /\ Len(ts) = N
        /\ \A i \in 1..N : ts[i].args = << data[i][1], data[i][2] >>
        /\ Len(Select(mesh, "computeTangents")) = 1
        /\ mesh[Len(mesh)].fn = "computeTangents"

NoTexCoordsNoTangents ==
    /\ Select(mesh, "addTexCoord") = <<>>
    /\ Select(mesh, "computeTangents") = <<>>

\* C6, as stated: with an active UV layer, N texcoords (the i-th from entry i
\* of the layer's data) and then one computeTangents; without, neither.
C6_TexCoordPerVertex ==
    Returned("bl2veraMesh") =>
        IF bl_mesh.uv_active # <<>> THEN AllTexCoordsThenTangents
        ELSE NoTexCoordsNoTangents

\* C6, amended: with an active UV layer whose data has at least N entries, N
\* texcoords (the i-th from entry i) and then one computeTangents, and the
\* mesh is returned; with an active layer of L < N entries, the first L
\* texcoords are emitted, the read of entry L raises IndexError, and
\* computeTangents is never called; without an active layer, neither
\* texcoords nor computeTangents.
C6_TexCoordPerVertexWhenLayerCovers ==
    Returned("bl2veraMesh") =>
        IF bl_mesh.uv_active = <<>> THEN NoTexCoordsNoTangents /\ ret = "Mesh"
        ELSE IF Len(bl_mesh.uv_active[1]) >= Len(bl_mesh.vertices)
        THEN AllTexCoordsThenTangents /\ ret = "Mesh"
        ELSE LET data == bl_mesh.uv_active[1]
                 ts == Select(mesh, "addTexCoord")
             IN  /\ ret = "IndexError"
                 /\ Len(ts) = Len(data)
                 /\ \A i \in 1..Len(data) : ts[i].args = << data[i][1], data[i][2] >>
                 /\ Select(mesh, "computeTangents") = <<>>

C6_Witness ==
    /\ Returned("bl2veraMesh")
    /\ bl_mesh.uv_active # <<>>
    /\ Len(bl_mesh.vertices) = 3
    /\ Len(bl_mesh.uv_active[1]) = 4
    /\ Len(Select(mesh, "addTexCoord")) = 3
    /\ mesh[Len(mesh)].fn = "computeTangents"

\* C7: a returned camera has had setViewport(w, h) with the caller's
\* dimensions and setScale(0.5), once each, whatever the source.
C7_ViewportAndScale ==
    Returned("bl2veraCamera") /\ ret = "Camera" =>
        /\ Select(cam, "setViewport") = << Call("setViewport", <<img_dims[1], img_dims[2]>>) >>
        /\ Select(cam, "setScale") = << Call("setScale", << [num |-> 1, den |-> 2] >>) >>

C7_Witness ==
    /\ Returned("bl2veraCamera") /\ ret = "Camera"
    /\ img_dims[1] # img_dims[2]
    /\ SourceView(source) # Identity
    /\ Len(cam) = 4

\* C8: an unrecognised source is reported, None is returned, nothing raises
\* and no setter is called; a recognised source never yields None.
C8_InvalidSourceYieldsNone ==
    Returned("bl2veraCamera") =>
        IF source.kind \notin {"RegionView3D", "Object"}
        THEN /\ ret = "None"
             /\ cam = <<>>
             /\ stdout = << <<"INVALID CAMERA SOURCE: ", source.kind>> >>
        ELSE ret # "None"

C8_Witness ==
    /\ Returned("bl2veraCamera")
    /\ source.kind = "Mesh"
    /\ ret = "None"

\* C9: file_exist returns True exactly when the path expands and opens for
\* reading, False otherwise, and leaves the set of open handles as it was.
C9_FileExist ==
    [][ fn = "file_exist" /\ ret = "" =>
          /\ ret' \in {"True", "False"}
          /\ ret' = "True" <=>
               /\ filename.type = "str"
               /\ [dir |-> IF filename.blend_relative THEN "blend" ELSE "cwd",
                   name |-> filename.name] \in readable
          /\ handles' = handles ]_vars

C9_Witness ==
    /\ Returned("file_exist")
    /\ ret = "True"
    /\ filename.blend_relative
    /\ handles # {}

\* C10: the sixteen arguments of each setter are the sixteen cells of the
\* matrix handed to it, each exactly once and unchanged: the arguments and
\* the cells are the same bag of values (for a matrix with pairwise different
\* cells, a bijection between argument positions and cells).
C10_PureRelabeling ==
    Returned("bl2veraCamera") /\ ret = "Camera" =>
        /\ Len(TransformArgs) = 16
        /\ Len(ProjectionArgs) = 16
        /\ BagOfSeq(TransformArgs) = BagOfSeq(Cells(view_matrix[1]))
        /\ BagOfSeq(ProjectionArgs) = BagOfSeq(Cells(projection_matrix[1]))

C10_Witness ==
    /\ Returned("bl2veraCamera") /\ ret = "Camera"
    /\ Cardinality({TransformArgs[k] : k \in 1..16}) = 16
    /\ Cardinality({ProjectionArgs[k] : k \in 1..16}) = 16

=============================================================================
